---- MODULE Spec2Model ----
(***************************************************************************)
(* Model of the visit-entry capture pipeline of mrt-photolog (App.tsx, the *)
(* Cloudinary version, src/unnamed/part_000 lines 446-808): the React      *)
(* state of App, the localStorage blob, and the asynchronous callbacks of  *)
(* handleImageUpload / generateCaption that are in flight.                 *)
(*                                                                         *)
(* A VisitLog is a function from the names of the fields it has to their   *)
(* values; an optional field that is absent is not in its DOMAIN.          *)
(***************************************************************************)
EXTENDS Integers, Sequences, FiniteSets, TLC

\* The React state of App, the storage blob and the work in flight; inputs
\* counts the user's inputs, deleted is history: the key of an entry that
\* deleteEntry removed and no saveEntry has followed; alertShown is history:
\* the page has shown the alert of a failed upload.
VARIABLES visitMap, localStorage, selectedStationData, isModalOpen,
          isUploading, isGeneratingCaption, tempVisit, requests,
          apiKey, inputs, deleted, alertShown

vars == <<visitMap, localStorage, selectedStationData, isModalOpen,
          isUploading, isGeneratingCaption, tempVisit, requests,
          apiKey, inputs, deleted, alertShown>>

(* ---------------------------- bounds ----------------------------------- *)

\* inputs the user gives in all: image selections, field edits, saves, deletes
MaxInputs == 2

(* ---------------------------- catalog ---------------------------------- *)

\* ./constants is not part of the sources: a fixed list of lines, each an
\* ordered list of stations (spec.md sections 2 and 6)
MRT_LINES ==
  << [id |-> "EWL", stations |-> << [code |-> "EW18", name |-> "Redhill"] >>],
     [id |-> "NSL", stations |-> << [code |-> "NS1", name |-> "Jurong East"] >>] >>

StationCodes(line) == {line.stations[s].code : s \in DOMAIN line.stations}

CatalogCodes == UNION {StationCodes(MRT_LINES[l]) : l \in DOMAIN MRT_LINES}

\* a station code that a persisted blob may hold and the catalog does not
ForeignCode == "XX9"

\* e.target.files[0] of a selection that is the user's n-th input: the user
\* picks a new file each time
File(n) == ToString(n)

\* new Date() at a click on a station: the calendar day of the instant in the
\* user's time zone and in UTC.  East of Greenwich the two differ from local
\* midnight until the zone's offset has passed (00:00 to 08:00 in Singapore).
Noon == [local |-> "today", utc |-> "today"]
EarlyMorning == [local |-> "today", utc |-> "yesterday"]
Clock == {Noon, EarlyMorning}

\* now.toISOString().split('T')[0]: the calendar day of the instant in UTC
ISODate(now) == now.utc

(* ---------------------------- values ----------------------------------- *)

\* useState<VisitLog | null>(null)
NullVisit == <<>>

\* useState<VisitMap>({})
EmptyMap == [c \in {} |-> NullVisit]

\* FileReader.readAsDataURL(file): the local data URL of the file
DataUrl(file) == <<"data", file>>

\* data.secure_url of the upload response for the file
SecureUrl(file) == <<"url", file>>

\* response.text of generateContent: the model's text, possibly padded
ResponseTexts(file) == { <<"ai", file>>, <<" ", "ai", file, " ">> }

RECURSIVE TrimStart(_)
TrimStart(s) ==
  IF s # <<>> /\ Head(s) = " " THEN TrimStart(Tail(s)) ELSE s

RECURSIVE TrimEnd(_)
TrimEnd(s) ==
  IF s # <<>> /\ s[Len(s)] = " " THEN TrimEnd(SubSeq(s, 1, Len(s) - 1)) ELSE s

\* String.prototype.trim
Trim(s) == TrimEnd(TrimStart(s))

\* { ...prev, [field]: value }
SetField(prev, field, value) == (field :> value) @@ prev

(* ------------------------- JSON and storage ---------------------------- *)

FieldOrder ==
  <<"stationCode", "visitedDate", "imageData", "caption", "highlights", "goodFood">>

KeyOrder == <<"EW18", "NS1", "XX9">>

\* a serializer that writes the two required properties only
StringifyVisit_RequiredOnly(v) ==
  << <<"stationCode", v.stationCode>>, <<"visitedDate", v.visitedDate>> >>

\* JSON.stringify of one VisitLog: the properties it has, as name/value pairs
StringifyVisit(v) ==
  LET present == SelectSeq(FieldOrder, LAMBDA f : f \in DOMAIN v)
  IN  [i \in 1..Len(present) |-> <<present[i], v[present[i]]>>]

\* JSON.stringify(newMap): a flat object keyed by station code
Stringify(map) ==
  LET keys == SelectSeq(KeyOrder, LAMBDA k : k \in DOMAIN map)
  IN  [i \in 1..Len(keys) |-> <<keys[i], StringifyVisit(map[keys[i]])>>]

ParseVisit(pairs) ==
  [f \in {pairs[i][1] : i \in DOMAIN pairs} |->
     pairs[CHOOSE i \in DOMAIN pairs : pairs[i][1] = f][2]]

\* JSON.parse(savedData)
Parse(text) ==
  [k \in {text[i][1] : i \in DOMAIN text} |->
     ParseVisit(text[CHOOSE i \in DOMAIN text : text[i][1] = k][2])]

\* localStorage.getItem('sg_rail_journey_visits'): null, a string that
\* JSON.parse rejects, or a JSON text
AbsentBlob == [kind |-> "absent"]
CorruptBlob == [kind |-> "corrupt"]
JsonBlob(text) == [kind |-> "json", text |-> text]

\* localStorage.setItem('sg_rail_journey_visits', JSON.stringify(newMap))
SetItem(map) == JsonBlob(Stringify(map))

\* a load that makes up a record when there is no text it can parse
LoadVisits_Salvages(blob) ==
  IF blob.kind = "json" THEN Parse(blob.text)
  ELSE ("NS1" :> [stationCode |-> "NS1", visitedDate |-> "today"])

\* the data part of the mount effect: the map the effect leaves in visitMap
LoadVisits(blob) ==
  IF blob.kind = "json" THEN Parse(blob.text) ELSE EmptyMap

\* { stationCode: station.code, visitedDate: new Date().toISOString().split('T')[0] }
Fresh(code, now) == [stationCode |-> code, visitedDate |-> ISODate(now)]

\* blobs a previous session (of this or an earlier catalog) may have left
InitialBlobs ==
  { AbsentBlob, CorruptBlob,
    SetItem(("NS1" :> Fresh("NS1", Noon)) @@ (ForeignCode :> Fresh(ForeignCode, Noon))) }

(* ------------------------- in-flight work ------------------------------ *)

\* The calls of handleImageUpload that still have a callback to run, by the
\* number of the input that made them.  reader, upload and caption are the positions of
\* the callbacks of a call: reader.onload, the await of uploadImage, and the
\* onloadend callback of generateCaption with its await of generateContent.
\* station, current, latest and typed are history: the station edited at the
\* call, the editor has not been closed since the call, no image was selected
\* after it, and the user typed a caption while the caption request was
\* pending.
NewRequest(file, code) ==
  [file |-> file, station |-> code, reader |-> "pending", upload |-> "pending",
   caption |-> "none", current |-> TRUE, latest |-> TRUE, typed |-> FALSE]

HasCallback(r) ==
  r.reader = "pending" \/ r.upload = "pending" \/ r.caption = "pending"

\* a call whose callbacks have all run is forgotten
InFlight(reqs) ==
  [i \in {k \in DOMAIN reqs : HasCallback(reqs[k])} |-> reqs[i]]

\* history: another image was selected
Supersede(reqs) == [i \in DOMAIN reqs |-> [reqs[i] EXCEPT !.latest = FALSE]]

\* history: the editor was closed, every call now belongs to a past draft
Retire(reqs) == [i \in DOMAIN reqs |-> [reqs[i] EXCEPT !.current = FALSE]]

(* ------------------------------ Init ----------------------------------- *)

Init ==
  /\ localStorage \in InitialBlobs
  /\ visitMap = LoadVisits(localStorage)
  /\ selectedStationData = "null"
  /\ isModalOpen = FALSE
  /\ isUploading = FALSE
  /\ isGeneratingCaption = FALSE
  /\ tempVisit = NullVisit
  /\ requests = <<>>
  /\ apiKey \in BOOLEAN
  /\ inputs = 0
  /\ deleted = "null"
  /\ alertShown = FALSE

(* ----------------------------- actions --------------------------------- *)

\* a page load: the component is mounted afresh and the mount effect runs
Reload ==
  /\ visitMap' = LoadVisits(localStorage)
  /\ selectedStationData' = "null"
  /\ isModalOpen' = FALSE
  /\ isUploading' = FALSE
  /\ isGeneratingCaption' = FALSE
  /\ tempVisit' = NullVisit
  /\ requests' = <<>>
  /\ alertShown' = FALSE
  /\ UNCHANGED <<localStorage, apiKey, inputs, deleted>>

handleStationClick(code, now) ==
  /\ ~isModalOpen
  /\ selectedStationData' = code
  /\ tempVisit' = IF code \in DOMAIN visitMap THEN visitMap[code]
                  ELSE Fresh(code, now)
  /\ isModalOpen' = TRUE
  /\ UNCHANGED <<visitMap, localStorage, isUploading, isGeneratingCaption,
                 requests, apiKey, inputs, deleted, alertShown>>

\* the backdrop or the close button: setIsModalOpen(false)
closeModal ==
  /\ isModalOpen
  /\ isModalOpen' = FALSE
  /\ requests' = Retire(requests)
  /\ UNCHANGED <<visitMap, localStorage, selectedStationData, isUploading,
                 isGeneratingCaption, tempVisit, apiKey, inputs, deleted, alertShown>>

\* onChange of one of the four form fields: { ...prev, [field]: e.target.value }
EditFields == {"visitedDate", "caption", "highlights", "goodFood"}

Typed(field) == IF field = "visitedDate" THEN {"d1"} ELSE {<<"u">>}

\* an editor whose draft is the record of the map itself, not a copy of it
editField_InPlace(field, value) ==
  /\ isModalOpen
  /\ tempVisit # NullVisit
  /\ inputs < MaxInputs
  /\ inputs' = inputs + 1
  /\ tempVisit' = SetField(tempVisit, field, value)
  /\ visitMap' = IF tempVisit.stationCode \in DOMAIN visitMap
                 THEN (tempVisit.stationCode :> tempVisit') @@ visitMap
                 ELSE visitMap
  /\ requests' = [i \in DOMAIN requests |->
                    IF field = "caption" /\ requests[i].caption = "pending"
                    THEN [requests[i] EXCEPT !.typed = TRUE] ELSE requests[i]]
  /\ UNCHANGED <<localStorage, selectedStationData, isModalOpen,
                 isUploading, isGeneratingCaption, apiKey, deleted, alertShown>>

editField(field, value) ==
  /\ isModalOpen
  /\ tempVisit # NullVisit
  /\ inputs < MaxInputs
  /\ inputs' = inputs + 1
  /\ tempVisit' = SetField(tempVisit, field, value)
  /\ requests' = [i \in DOMAIN requests |->
                    IF field = "caption" /\ requests[i].caption = "pending"
                    THEN [requests[i] EXCEPT !.typed = TRUE] ELSE requests[i]]
  /\ UNCHANGED <<visitMap, localStorage, selectedStationData, isModalOpen,
                 isUploading, isGeneratingCaption, apiKey, deleted, alertShown>>

\* a selection that starts the caption request together with the upload
handleImageUpload_CaptionsAtOnce ==
  /\ isModalOpen
  /\ tempVisit # NullVisit
  /\ inputs < MaxInputs
  /\ inputs' = inputs + 1
  /\ requests' = ((inputs + 1) :>
                    [NewRequest(File(inputs + 1), selectedStationData)
                       EXCEPT !.caption = IF apiKey THEN "pending" ELSE "none"])
                 @@ Supersede(requests)
  /\ isUploading' = TRUE
  /\ isGeneratingCaption' = (apiKey \/ isGeneratingCaption)
  /\ UNCHANGED <<visitMap, localStorage, selectedStationData, isModalOpen,
                 tempVisit, apiKey, deleted, alertShown>>

\* handleImageUpload up to its await: the reader and the upload are started
handleImageUpload ==
  /\ isModalOpen
  /\ tempVisit # NullVisit
  /\ inputs < MaxInputs
  /\ inputs' = inputs + 1
  /\ requests' = ((inputs + 1) :> NewRequest(File(inputs + 1), selectedStationData)) @@ Supersede(requests)
  /\ isUploading' = TRUE
  /\ UNCHANGED <<visitMap, localStorage, selectedStationData, isModalOpen,
                 isGeneratingCaption, tempVisit, apiKey, deleted, alertShown>>

\* reader.onload of handleImageUpload
readerOnload(i) ==
  /\ requests[i].reader = "pending"
  /\ tempVisit' = IF tempVisit # NullVisit
                  THEN SetField(tempVisit, "imageData", DataUrl(requests[i].file))
                  ELSE NullVisit
  /\ requests' = InFlight([requests EXCEPT ![i].reader = "done"])
  /\ UNCHANGED <<visitMap, localStorage, selectedStationData, isModalOpen,
                 isUploading, isGeneratingCaption, apiKey, inputs, deleted, alertShown>>

\* an upload whose generateCaption lacks the early return on a missing key
uploadResolved_NoKeyCheck(i) ==
  /\ requests[i].upload = "pending"
  /\ tempVisit' = IF tempVisit # NullVisit
                  THEN SetField(tempVisit, "imageData", SecureUrl(requests[i].file))
                  ELSE NullVisit
  /\ isGeneratingCaption' = TRUE
  /\ requests' = InFlight([requests EXCEPT ![i].upload = "ok",
                                           ![i].caption = "pending"])
  /\ isUploading' = FALSE
  /\ UNCHANGED <<visitMap, localStorage, selectedStationData, isModalOpen,
                 apiKey, inputs, deleted, alertShown>>

\* uploadImage resolved: the rest of the try block, generateCaption up to
\* its reader, and the finally block
uploadResolved(i) ==
  /\ requests[i].upload = "pending"
  /\ tempVisit' = IF tempVisit # NullVisit
                  THEN SetField(tempVisit, "imageData", SecureUrl(requests[i].file))
                  ELSE NullVisit
  /\ IF apiKey
     THEN /\ isGeneratingCaption' = TRUE
          /\ requests' = InFlight([requests EXCEPT ![i].upload = "ok",
                                                   ![i].caption = "pending"])
     ELSE /\ isGeneratingCaption' = isGeneratingCaption
          /\ requests' = InFlight([requests EXCEPT ![i].upload = "ok"])
  /\ isUploading' = FALSE
  /\ UNCHANGED <<visitMap, localStorage, selectedStationData, isModalOpen,
                 apiKey, inputs, deleted, alertShown>>

\* a catch block that takes the image out of the draft again
uploadRejected_RollsBack(i) ==
  /\ requests[i].upload = "pending"
  /\ requests' = InFlight([requests EXCEPT ![i].upload = "failed"])
  /\ alertShown' = TRUE
  /\ isUploading' = FALSE
  /\ tempVisit' = [f \in DOMAIN tempVisit \ {"imageData"} |-> tempVisit[f]]
  /\ UNCHANGED <<visitMap, localStorage, selectedStationData, isModalOpen,
                 isGeneratingCaption, apiKey, inputs, deleted>>

\* uploadImage rejected: the catch block (alert) and the finally block
uploadRejected(i) ==
  /\ requests[i].upload = "pending"
  /\ requests' = InFlight([requests EXCEPT ![i].upload = "failed"])
  /\ alertShown' = TRUE
  /\ isUploading' = FALSE
  /\ UNCHANGED <<visitMap, localStorage, selectedStationData, isModalOpen,
                 isGeneratingCaption, tempVisit, apiKey, inputs, deleted>>

\* reader.onloadend of generateCaption with generateContent resolved: up to
\* its await the callback changes no state
generateResolved(i, text) ==
  /\ requests[i].caption = "pending"
  /\ tempVisit' = IF tempVisit # NullVisit
                  THEN SetField(tempVisit, "caption", Trim(text))
                  ELSE NullVisit
  /\ isGeneratingCaption' = FALSE
  /\ requests' = InFlight([requests EXCEPT ![i].caption = "done"])
  /\ UNCHANGED <<visitMap, localStorage, selectedStationData, isModalOpen,
                 isUploading, apiKey, inputs, deleted, alertShown>>

\* a failed caption request that blanks the caption of the draft
generateRejected_ClearsCaption(i) ==
  /\ requests[i].caption = "pending"
  /\ requests' = InFlight([requests EXCEPT ![i].caption = "failed"])
  /\ tempVisit' = IF tempVisit # NullVisit
                  THEN SetField(tempVisit, "caption", <<>>)
                  ELSE NullVisit
  /\ UNCHANGED <<visitMap, localStorage, selectedStationData, isModalOpen,
                 isUploading, isGeneratingCaption, apiKey, inputs, deleted, alertShown>>

\* reader.onloadend of generateCaption with generateContent rejected: the
\* rejection leaves the async callback, outside the try block of generateCaption
generateRejected(i) ==
  /\ requests[i].caption = "pending"
  /\ requests' = InFlight([requests EXCEPT ![i].caption = "failed"])
  /\ UNCHANGED <<visitMap, localStorage, selectedStationData, isModalOpen,
                 isUploading, isGeneratingCaption, tempVisit, apiKey, inputs, deleted, alertShown>>

\* a commit that builds the new map without spreading the old one
Commit_DropsOthers(map, visit) == (visit.stationCode :> visit)

\* { ...visitMap, [tempVisit.stationCode]: tempVisit }
Commit(map, visit) == (visit.stationCode :> visit) @@ map

\* a Save Journey button that is never disabled
SaveDisabled_Never == FALSE

\* disabled={isUploading} of the Save Journey button
SaveDisabled == isUploading

\* a save that writes the map as it was before the commit
saveEntry_PersistsOld ==
  /\ isModalOpen
  /\ inputs < MaxInputs
  /\ inputs' = inputs + 1
  /\ ~SaveDisabled
  /\ tempVisit # NullVisit
  /\ visitMap' = Commit(visitMap, tempVisit)
  /\ localStorage' = SetItem(visitMap)
  /\ isModalOpen' = FALSE
  /\ requests' = Retire(requests)
  /\ deleted' = IF tempVisit.stationCode = deleted THEN "null" ELSE deleted
  /\ UNCHANGED <<selectedStationData, isUploading, isGeneratingCaption,
                 tempVisit, apiKey, alertShown>>

\* the Save Journey button
saveEntry ==
  /\ isModalOpen
  /\ inputs < MaxInputs
  /\ inputs' = inputs + 1
  /\ ~SaveDisabled
  /\ tempVisit # NullVisit
  /\ LET newMap == Commit(visitMap, tempVisit)
     IN  /\ visitMap' = newMap
         /\ localStorage' = SetItem(newMap)
  /\ isModalOpen' = FALSE
  /\ requests' = Retire(requests)
  /\ deleted' = IF tempVisit.stationCode = deleted THEN "null" ELSE deleted
  /\ UNCHANGED <<selectedStationData, isUploading, isGeneratingCaption,
                 tempVisit, apiKey, alertShown>>

\* a removal that only blanks the record and keeps the key
Remove_KeepsKey(map, code) ==
  [k \in DOMAIN map |-> IF k = code THEN NullVisit ELSE map[k]]

\* const newMap = { ...visitMap }; delete newMap[code]
Remove(map, code) == [k \in DOMAIN map \ {code} |-> map[k]]

\* a Clear Entry that changes the map in memory and does not write it back
deleteEntry_NotPersisted ==
  /\ isModalOpen
  /\ inputs < MaxInputs
  /\ inputs' = inputs + 1
  /\ selectedStationData # "null"
  /\ visitMap' = Remove(visitMap, selectedStationData)
  /\ isModalOpen' = FALSE
  /\ requests' = Retire(requests)
  /\ deleted' = IF selectedStationData \in DOMAIN visitMap
                THEN selectedStationData ELSE deleted
  /\ UNCHANGED <<localStorage, selectedStationData, isUploading,
                 isGeneratingCaption, tempVisit, apiKey, alertShown>>

\* the Clear Entry button
deleteEntry ==
  /\ isModalOpen
  /\ inputs < MaxInputs
  /\ inputs' = inputs + 1
  /\ selectedStationData # "null"
  /\ LET newMap == Remove(visitMap, selectedStationData)
     IN  /\ visitMap' = newMap
         /\ localStorage' = SetItem(newMap)
  /\ isModalOpen' = FALSE
  /\ requests' = Retire(requests)
  /\ deleted' = IF selectedStationData \in DOMAIN visitMap
                THEN selectedStationData ELSE deleted
  /\ UNCHANGED <<selectedStationData, isUploading, isGeneratingCaption,
                 tempVisit, apiKey, alertShown>>

Next ==
  \/ Reload
  \/ \E code \in CatalogCodes : \E now \in Clock : handleStationClick(code, now)
  \/ closeModal
  \/ \E field \in EditFields : \E value \in Typed(field) : editField(field, value)
  \/ handleImageUpload
  \/ \E i \in DOMAIN requests : readerOnload(i)
  \/ \E i \in DOMAIN requests : uploadResolved(i)
  \/ \E i \in DOMAIN requests : uploadRejected(i)
  \/ \E i \in DOMAIN requests : \E text \in ResponseTexts(requests[i].file) :
        generateResolved(i, text)
  \/ \E i \in DOMAIN requests : generateRejected(i)
  \/ saveEntry
  \/ deleteEntry

Spec == Init /\ [][Next]_vars

\* The event loop runs every callback that is due: a started read ends, a
\* started upload settles, a started caption request settles.  What the user
\* does, and which way a request settles, is left open.
FairSpec ==
  /\ Spec
  /\ WF_vars(\E i \in DOMAIN requests : readerOnload(i))
  /\ WF_vars(\E i \in DOMAIN requests : uploadResolved(i) \/ uploadRejected(i))
  /\ WF_vars(\E i \in DOMAIN requests :
               \/ \E text \in ResponseTexts(requests[i].file) : generateResolved(i, text)
               \/ generateRejected(i))

(* ----------------------------- progress -------------------------------- *)

RECURSIVE SumStations(_)
SumStations(lines) ==
  IF lines = <<>> THEN 0
  ELSE Len(Head(lines).stations) + SumStations(Tail(lines))

\* MRT_LINES.reduce((sum, line) => sum + line.stations.length, 0)
totalStations == SumStations(MRT_LINES)

\* Object.keys(visitMap).length
totalVisited == Cardinality(DOMAIN visitMap)

(* ------------------------------ claims --------------------------------- *)

\* the caption of a draft, "absent" when the draft has none
CaptionOf(visit) ==
  IF "caption" \in DOMAIN visit THEN <<"some", visit.caption>> ELSE <<"absent">>

\* the draft shown in the open editor belongs to another station than the call
OtherStationOpen(r) == isModalOpen /\ selectedStationData # r.station

\* C1: round-trip law.  Every saveEntry step leaves the draft, field for
\* field, under its station code in visitMap, and the startup load of the
\* blob it wrote under 'sg_rail_journey_visits' gives the in-memory map.
C1_RoundTrip ==
  [][saveEntry =>
       /\ tempVisit.stationCode \in DOMAIN visitMap'
       /\ visitMap'[tempVisit.stationCode] = tempVisit
       /\ LoadVisits(localStorage') = visitMap']_vars

\* a draft with a photo and a caption was saved for EW18 and is persisted
C1_Witness ==
  /\ "EW18" \in DOMAIN visitMap
  /\ {"imageData", "caption"} \subseteq DOMAIN visitMap["EW18"]
  /\ localStorage = SetItem(visitMap)

\* C2: a caption result of a call made while editing station s1 that arrives
\* while the editor shows the draft of another station s2 leaves the caption
\* of that draft unchanged.
C2_StaleCaptionDropped ==
  [][\A i \in DOMAIN requests : \A text \in ResponseTexts(requests[i].file) :
       (generateResolved(i, text) /\ OtherStationOpen(requests[i]))
         => CaptionOf(tempVisit') = CaptionOf(tempVisit)]_vars

\* C3: a caption result that arrives after the user typed into the caption
\* field of the same draft, the request still pending, does not overwrite
\* the typed caption.
C3_TypedCaptionWins ==
  [][\A i \in DOMAIN requests : \A text \in ResponseTexts(requests[i].file) :
       (generateResolved(i, text) /\ requests[i].current /\ requests[i].typed)
         => CaptionOf(tempVisit') = CaptionOf(tempVisit)]_vars

\* C4: an upload result is applied only to the draft it was issued for: when
\* the editor was closed, or closed and opened again, since the selection,
\* the arriving URL is not written into the draft then shown.
C4_StaleUploadDropped ==
  [][\A i \in DOMAIN requests :
       (uploadResolved(i) /\ ~requests[i].current /\ isModalOpen)
         => tempVisit' = tempVisit]_vars

\* C5: once a second image is selected for the same draft, the upload and
\* caption results of the first selection never apply to the draft.
C5_SupersededDropped ==
  [][\A i \in DOMAIN requests :
       (/\ requests[i].current
        /\ ~requests[i].latest
        /\ \/ uploadResolved(i)
           \/ \E text \in ResponseTexts(requests[i].file) : generateResolved(i, text))
         => tempVisit' = tempVisit]_vars

\* C6 as stated: whenever the editor is open and an upload is pending, the
\* save action is permitted.
C6_SaveWhilePending ==
  (isModalOpen /\ \E i \in DOMAIN requests : requests[i].upload = "pending")
    => ~SaveDisabled

\* C6 as amended: a save happens only while isUploading is false, and then
\* it commits the draft as it stands, whatever imageData holds, in one step
\* that leaves every pending upload and caption request pending.
C6_SaveGated ==
  [][saveEntry =>
       /\ ~isUploading
       /\ visitMap'[tempVisit.stationCode] = tempVisit
       /\ \A i \in DOMAIN requests :
            /\ i \in DOMAIN requests'
            /\ requests'[i].upload = requests[i].upload
            /\ requests'[i].caption = requests[i].caption]_vars

\* a record with the local data URL was committed while a caption request
\* was still pending
C6_Witness ==
  /\ ~isModalOpen
  /\ \E c \in CatalogCodes :
       /\ c \in DOMAIN visitMap
       /\ "imageData" \in DOMAIN visitMap[c]
       /\ visitMap[c].imageData[1] = "data"
       /\ visitMap[c] = tempVisit
  /\ \E i \in DOMAIN requests : requests[i].caption = "pending"

\* C7: the local data URL is in the draft before the upload of the selection
\* completes, by success or by failure, and the successful upload leaves the
\* remote URL in imageData.
C7_PreviewBeforeUpload ==
  [][\A i \in DOMAIN requests :
       /\ (uploadResolved(i) \/ uploadRejected(i)) => requests[i].reader = "done"
       /\ uploadResolved(i) => tempVisit'.imageData = SecureUrl(requests[i].file)]_vars

\* C8: the visited count shown is at most the total station count and is
\* the number of keys of visitMap that are station codes of the catalog.
C8_Progress ==
  /\ totalVisited <= totalStations
  /\ totalVisited = Cardinality(DOMAIN visitMap \cap CatalogCodes)

\* C9: a deleteEntry step leaves its station code absent from visitMap,
\* present before or not, keeps every other key with its record, adds none,
\* and removing the code once more changes nothing.
C9_RemoveIdempotent ==
  [][deleteEntry =>
       /\ selectedStationData \notin DOMAIN visitMap'
       /\ DOMAIN visitMap' = DOMAIN visitMap \ {selectedStationData}
       /\ \A k \in DOMAIN visitMap' : visitMap'[k] = visitMap[k]
       /\ Remove(visitMap', selectedStationData) = visitMap']_vars

\* Clear Entry was pressed for a station that had no entry: the first input
\* wrote an empty map over a missing or corrupt blob
C9_Witness ==
  /\ inputs = 1
  /\ visitMap = EmptyMap
  /\ localStorage = SetItem(EmptyMap)

\* C10: a page load that follows the deletion of an existing entry, no save
\* of that station in between, gives a map without the station's key.
C10_DeletedStaysDeleted ==
  [][(Reload /\ deleted # "null") => deleted \notin DOMAIN visitMap']_vars

\* the entry of NS1 was deleted and the page was loaded again
C10_Witness ==
  /\ deleted = "NS1"
  /\ tempVisit = NullVisit
  /\ "NS1" \notin DOMAIN visitMap
  /\ ForeignCode \in DOMAIN visitMap

\* C11: with no API key, no step of an attachment (the selection, the
\* reader, the upload resolving or failing) changes the caption of the draft,
\* no caption request is ever started and the generating indicator is never
\* set, so no caption request can fail.
AttachStep ==
  \/ handleImageUpload
  \/ \E i \in DOMAIN requests :
        readerOnload(i) \/ uploadResolved(i) \/ uploadRejected(i)

C11_NoKeyNoCaption ==
  [][~apiKey =>
       /\ AttachStep => CaptionOf(tempVisit') = CaptionOf(tempVisit)
       /\ ~isGeneratingCaption'
       /\ \A i \in DOMAIN requests' : requests'[i].caption = "none"]_vars

\* without a key one upload has resolved and another has failed, every
\* callback has run, and the draft has its image and still no caption
C11_Witness ==
  /\ ~apiKey
  /\ alertShown
  /\ requests = <<>>
  /\ tempVisit # NullVisit
  /\ "imageData" \in DOMAIN tempVisit
  /\ tempVisit.imageData[1] = "url"
  /\ CaptionOf(tempVisit) = <<"absent">>

\* C12: whenever the blob under 'sg_rail_journey_visits' is absent or is a
\* text JSON.parse rejects, the map in memory is empty: startup and every
\* page load treat such a blob as no history.
C12_LoadRecovers ==
  localStorage.kind \in {"absent", "corrupt"} => visitMap = EmptyMap

\* the page was loaded again over a corrupt blob after the user had worked on a draft
C12_Witness ==
  /\ localStorage = CorruptBlob
  /\ inputs >= 1
  /\ tempVisit = NullVisit
  /\ visitMap = EmptyMap

\* C13: commit frame.  A saveEntry step leaves a map whose keys are the old
\* keys and the station code of the draft, with the draft under that code and
\* every other key holding the record it held before.
C13_CommitFrame ==
  [][saveEntry =>
       LET code == tempVisit.stationCode
       IN  /\ DOMAIN visitMap' = DOMAIN visitMap \cup {code}
           /\ visitMap'[code] = tempVisit
           /\ \A k \in DOMAIN visitMap \ {code} : visitMap'[k] = visitMap[k]]_vars

\* the draft of EW18 was saved next to the two records of the previous
\* session, which are as they were
C13_Witness ==
  /\ inputs >= 1
  /\ ~isModalOpen
  /\ DOMAIN visitMap = {"EW18", "NS1", ForeignCode}
  /\ visitMap["EW18"] = tempVisit
  /\ visitMap["NS1"] = Fresh("NS1", Noon)
  /\ visitMap[ForeignCode] = Fresh(ForeignCode, Noon)

C15_OnlySaveOrDelete ==
  [][(visitMap' # visitMap \/ localStorage' # localStorage)
       => (saveEntry \/ deleteEntry)]_vars

\* a draft with its uploaded image was saved while its caption request was
\* pending; the caption has since arrived in the draft and the saved record
\* has none
C15_Witness ==
  /\ ~isModalOpen
  /\ requests = <<>>
  /\ tempVisit # NullVisit
  /\ "caption" \in DOMAIN tempVisit
  /\ tempVisit.stationCode \in DOMAIN visitMap
  /\ "imageData" \in DOMAIN visitMap[tempVisit.stationCode]
  /\ "caption" \notin DOMAIN visitMap[tempVisit.stationCode]

\* C16: captioning is independent of the upload.  With an API key, every
\* call of handleImageUpload that is still in flight has had its caption
\* request issued, whether its upload is pending, has failed or has resolved.
C16_CaptionIndependent ==
  apiKey => \A i \in DOMAIN requests : requests[i].caption # "none"

\* C16, as the code has it: a caption request exists only with an API key
\* and only for a call whose upload has resolved, and with an API key the
\* step in which an upload resolves issues the caption request of that call.
C16_CaptionAfterUpload ==
  [][/\ \A i \in DOMAIN requests' :
          requests'[i].caption # "none" => (apiKey /\ requests'[i].upload = "ok")
     /\ \A i \in DOMAIN requests :
          (apiKey /\ uploadResolved(i))
            => (i \in DOMAIN requests' /\ requests'[i].caption = "pending")]_vars

\* with an API key one upload has failed and its call is over with no caption
\* request, and the only call in flight is one whose upload resolved and whose
\* caption request is pending
C16_Witness ==
  /\ apiKey
  /\ alertShown
  /\ \E i \in DOMAIN requests :
        /\ DOMAIN requests = {i}
        /\ requests[i].upload = "ok"
        /\ requests[i].caption = "pending"

\* C17: the step in which an upload fails leaves the draft, and with it the
\* local image the reader has put there, as it is, shows the alert, and
\* leaves the Save Journey button enabled.
C17_UploadFailure ==
  [][\A i \in DOMAIN requests :
       uploadRejected(i) =>
         /\ tempVisit' = tempVisit
         /\ alertShown'
         /\ ~SaveDisabled']_vars

\* an upload failed after the reader had set the preview, and the draft was
\* then saved with the local data URL as its image
C17_Witness ==
  /\ alertShown
  /\ ~isModalOpen
  /\ requests = <<>>
  /\ tempVisit # NullVisit
  /\ tempVisit.stationCode \in DOMAIN visitMap
  /\ visitMap[tempVisit.stationCode] = tempVisit
  /\ "imageData" \in DOMAIN tempVisit
  /\ tempVisit.imageData[1] = "data"

\* C18: the step in which a caption request fails leaves the caption of the
\* draft, present or absent, exactly as it was, and does not change whether
\* the Save Journey button is disabled.
C18_CaptionFailure ==
  [][\A i \in DOMAIN requests :
       generateRejected(i) =>
         /\ CaptionOf(tempVisit') = CaptionOf(tempVisit)
         /\ SaveDisabled' = SaveDisabled]_vars

\* a caption request failed and the draft, with its uploaded image and no
\* caption, was saved
C18_Witness ==
  /\ isGeneratingCaption
  /\ ~isModalOpen
  /\ requests = <<>>
  /\ tempVisit # NullVisit
  /\ tempVisit.stationCode \in DOMAIN visitMap
  /\ visitMap[tempVisit.stationCode] = tempVisit
  /\ "imageData" \in DOMAIN tempVisit
  /\ CaptionOf(tempVisit) = <<"absent">>

\* the calendar day of the instant where the user is
LocalDate(now) == now.local

\* C19: a click on a station opens the editor on that station with a draft
\* that is the station's record in the map, or, when the map has none, a
\* record of exactly two fields, the station's code and today's date, today
\* being the day of the click where the user is; nothing of the draft that
\* was there before is in it.
C19_DraftInitialised ==
  [][\A code \in CatalogCodes : \A now \in Clock :
       handleStationClick(code, now) =>
         /\ selectedStationData' = code
         /\ isModalOpen'
         /\ IF code \in DOMAIN visitMap
            THEN tempVisit' = visitMap[code]
            ELSE /\ DOMAIN tempVisit' = {"stationCode", "visitedDate"}
                 /\ tempVisit'.stationCode = code
                 /\ tempVisit'.visitedDate = LocalDate(now)]_vars

\* an upload of handleImageUpload whose await of uploadImage has not settled
UploadInFlight == \E i \in DOMAIN requests : requests[i].upload = "pending"

\* C20: the Save Journey button is disabled in every state in which an upload
\* is in flight, also after one of two overlapping uploads has settled, and
\* isUploading is false in every state in which no upload is in flight.
C20_SaveGatedByUploads ==
  /\ UploadInFlight => SaveDisabled
  /\ ~UploadInFlight => ~isUploading

\* C21: for one selection, once the draft's imageData is the secure_url of
\* the selected file, no step other than the opening of a station makes it
\* the local data URL of that same file, in whatever order reader.onload and
\* the upload response are delivered.
C21_RemoteUrlStays ==
  [][\A i \in DOMAIN requests :
       (/\ tempVisit # NullVisit
        /\ "imageData" \in DOMAIN tempVisit
        /\ tempVisit.imageData = SecureUrl(requests[i].file)
        /\ ~(\E code \in CatalogCodes : \E now \in Clock :
               handleStationClick(code, now)))
       => ~(/\ tempVisit' # NullVisit
            /\ "imageData" \in DOMAIN tempVisit'
            /\ tempVisit'.imageData = DataUrl(requests[i].file))]_vars

\* C22: every caption request eventually clears the indicator.  Whenever
\* isGeneratingCaption is true, and the call of generateContent is bound to
\* settle, by success or by failure, isGeneratingCaption is false again
\* at some later time.
C22_IndicatorCleared == isGeneratingCaption ~> ~isGeneratingCaption

====
